---- MODULE Spec2Model ----
(***************************************************************************)
(* Model of football/football.py: the Football client class, its           *)
(* parameter validation, its URL builder and the HTTP GETs it issues.       *)
(*                                                                         *)
(* Python values are tagged records: None, PyInt(n), PyStr(chars).  A      *)
(* Python str that is inspected character by character (regular            *)
(* expressions, percent-encoding) is a sequence of one-character strings;  *)
(* text that is only concatenated (paths, URLs) is a TLA+ string.  Join    *)
(* converts.                                                               *)
(***************************************************************************)
EXTENDS Integers, Sequences, FiniteSets, TLC

VARIABLES
    api_key,      \* self.api_key
    headers,      \* self.headers
    API_URL,      \* Football.API_URL (class attribute)
    LEAGUE_CODE,  \* module-level dict LEAGUE_CODE
    last          \* the latest invocation: operation, arguments, result

vars == <<api_key, headers, API_URL, LEAGUE_CODE, last>>

-----------------------------------------------------------------------------
(* Bounds of the model *)

MaxSeasonLen == 5
MaxMatchdayLen == 2
MaxTimeFrameLen == 2
MaxId == 1

-----------------------------------------------------------------------------
(* Python values *)

None == [t |-> "None"]
PyInt(n) == [t |-> "int", v |-> n]
PyStr(s) == [t |-> "str", v |-> s]

IsNone(x) == x.t = "None"
IsStr(x) == x.t = "str"
IsInt(x) == x.t = "int"

DigitChar == <<"0", "1", "2", "3", "4", "5", "6", "7", "8", "9">>
Digits == {DigitChar[i] : i \in 1..10}
NonZeroDigits == Digits \ {"0"}

RECURSIVE Join(_)
Join(chars) ==
    IF chars = <<>> THEN "" ELSE Head(chars) \o Join(Tail(chars))

RECURSIVE int_str(_)
int_str(n) ==
    IF n < 10 THEN <<DigitChar[n + 1]>>
    ELSE int_str(n \div 10) \o <<DigitChar[(n % 10) + 1]>>

\* str(x) for the values the methods convert: an int or a str
str(x) == IF IsInt(x) THEN int_str(x.v) ELSE x.v

\* the truth value Python gives `if x:`
truthy(x) ==
    CASE IsNone(x) -> FALSE
      [] IsInt(x) -> x.v # 0
      [] IsStr(x) -> x.v # <<>>

\* f"{x}" of an int or a str
format(x) == Join(str(x))

-----------------------------------------------------------------------------
(* re: a pattern is a sequence of alternatives (a|b); an alternative is a  *)
(* sequence of items; an item is a character class with a repeat range.    *)

One(cls) == [cls |-> cls, min |-> 1, max |-> 1, unbounded |-> FALSE]
Plus(cls) == [cls |-> cls, min |-> 1, max |-> 1, unbounded |-> TRUE]
Repeat(cls, lo, hi) == [cls |-> cls, min |-> lo, max |-> hi, unbounded |-> FALSE]

SEASON_PATTERN ==       \* r"\d\d\d\d"
    << <<One(Digits), One(Digits), One(Digits), One(Digits)>> >>
MATCHDAY_PATTERN ==     \* r"\d+"
    << <<Plus(Digits)>> >>
TIME_FRAME_PATTERN ==   \* r"p|n[1-9]{1,2}"
    << <<One({"p"})>>, <<One({"n"}), Repeat(NonZeroDigits, 1, 2)>> >>

RECURSIVE match_items(_, _, _, _)
match_items(items, i, s, pos) ==
    IF i > Len(items) THEN TRUE
    ELSE LET it == items[i]
             avail == Len(s) - pos + 1
             hi == IF it.unbounded \/ it.max > avail THEN avail ELSE it.max
         IN \E k \in it.min .. hi :
               /\ \A j \in pos .. (pos + k - 1) : s[j] \in it.cls
               /\ match_items(items, i + 1, s, pos + k)

\* pattern.match(s): the pattern matches at the START of s; the rest of s
\* is not looked at.
re_match(pattern, s) ==
    \E a \in 1..Len(pattern) : match_items(pattern[a], 1, s, 1)

-----------------------------------------------------------------------------
(* urllib.parse *)

UNRESERVED ==
    Digits \cup {"a", "e", "h", "m", "n", "o", "p", "w", "x", "y",
                 "A", "B", "C", "D", "E", "F", "L", "P", "S", "X",
                 "_", ".", "-", "~"}

PERCENT == ("&" :> "%26") @@ ("=" :> "%3D") @@ ("?" :> "%3F") @@ ("/" :> "%2F")

quote_char(c) ==
    IF c \in UNRESERVED THEN c
    ELSE IF c = " " THEN "+"
    ELSE PERCENT[c]

RECURSIVE quote_plus(_)
quote_plus(chars) ==
    IF chars = <<>> THEN ""
    ELSE quote_char(Head(chars)) \o quote_plus(Tail(chars))

\* query_params is a dict in insertion order: a sequence of <<name, value>>
RECURSIVE urlencode(_)
urlencode(query_params) ==
    IF query_params = <<>> THEN ""
    ELSE LET kv == Head(query_params)
             pair == kv[1] \o "=" \o quote_plus(str(kv[2]))
         IN IF Len(query_params) = 1 THEN pair
            ELSE pair \o "&" \o urlencode(Tail(query_params))

\* urljoin(base, url) for a base that ends in "/" and a relative reference
\* with neither scheme, authority, leading slash nor dot segments
urljoin(base, url) == IF url = "" THEN base ELSE base \o url

-----------------------------------------------------------------------------
(* The result of an invocation: what it handed back (a returned value or a *)
(* raised exception) and the HTTP requests it issued, in order.            *)

Returned(value, reqs) == [kind |-> "return", value |-> value, requests |-> reqs]
Raised(error, reqs) == [kind |-> "raise", value |-> error, requests |-> reqs]

\* what the remote end does with a request: it answers with a JSON body, or
\* the transport or the decoding fails
Responses == {"json", "error"}

\* requests.get(url, headers=self.headers)
requests_get(url, hdrs) == [method |-> "GET", url |-> url, headers |-> hdrs]

\* a variant of get_json that sends the request again when the first fails
get_json_retry(req, response) ==
    IF response = "json" THEN Returned("json", <<req>>)
    ELSE Raised("RequestException", <<req, req>>)

\* requests.get(...).json() followed by `return`
get_json(req, response) ==
    IF response = "json" THEN Returned("json", <<req>>)
    ELSE Raised("RequestException", <<req>>)

\* the client object the methods receive
Self == [api_key |-> api_key, headers |-> headers, API_URL |-> API_URL]

\* a variant of _generate_url that adds the trailing slash after the query
_generate_url_slash_last(self, action, query_params) ==
    LET a1 == IF query_params # <<>>
              THEN action \o "?" \o urlencode(query_params) ELSE action
        a2 == IF action = "competitions" \/ action = "fixtures"
              THEN a1 \o "/" ELSE a1
    IN urljoin(self.API_URL, a2)

_generate_url(self, action, query_params) ==
    LET a1 == IF action = "competitions" \/ action = "fixtures"
              THEN action \o "/" ELSE action
        a2 == IF query_params # <<>>
              THEN a1 \o "?" \o urlencode(query_params) ELSE a1
    IN urljoin(self.API_URL, a2)

\* a variant of resolve that looks up with a default,
\* LEAGUE_CODE.get(competition_id, competition_id)
resolve_default(competition_id) ==
    IF IsStr(competition_id) /\ Join(competition_id.v) \in DOMAIN LEAGUE_CODE
    THEN [found |-> TRUE, id |-> PyInt(LEAGUE_CODE[Join(competition_id.v)])]
    ELSE [found |-> TRUE, id |-> competition_id]

\* a variant of resolve that takes the ids to be consecutive from 444 in the
\* order of the table (they are not: 454 and 460..463, 465 are skipped)
resolve_consecutive(competition_id) ==
    LET order == <<"BSA", "PL", "ELC", "EL1", "EL2", "DED", "FL1", "FL2", "BL1",
                   "BL2", "PD", "SA", "PPL", "DFB", "SB", "CL", "AAL">>
        code == Join(competition_id.v)
    IN IF IsStr(competition_id)
       THEN IF code \in DOMAIN LEAGUE_CODE
            THEN [found |-> TRUE,
                  id |-> PyInt(443 + CHOOSE i \in 1..Len(order) : order[i] = code)]
            ELSE [found |-> FALSE, id |-> None]
       ELSE [found |-> TRUE, id |-> competition_id]

\* `if isinstance(competition_id, str): try: LEAGUE_CODE[competition_id]
\*  except KeyError as error: return error`
resolve(competition_id) ==
    IF IsStr(competition_id)
    THEN IF Join(competition_id.v) \in DOMAIN LEAGUE_CODE
         THEN [found |-> TRUE, id |-> PyInt(LEAGUE_CODE[Join(competition_id.v)])]
         ELSE [found |-> FALSE, id |-> None]
    ELSE [found |-> TRUE, id |-> competition_id]

\* one "Error checking for query parameter" block guarded by a pattern:
\* the updated query parameters, or the error raised.  A value that is not
\* true (None, 0, "") skips the block and adds nothing; where the method
\* hands that value itself to _generate_url (competitions, table) it is as
\* false there as the empty mapping is.
check_pattern(name, key, value, pattern, query_params) ==
    IF truthy(value)
    THEN IF ~re_match(pattern, str(value))
         THEN [ok |-> FALSE, error |-> "ValueError: " \o name \o " is invalid.",
               query_params |-> query_params]
         ELSE [ok |-> TRUE, error |-> "",
               query_params |-> Append(query_params, <<key, PyStr(str(value))>>)]
    ELSE [ok |-> TRUE, error |-> "", query_params |-> query_params]

\* one block guarded by membership: `if value: if value not in allowed: raise`
check_member(name, key, value, allowed, query_params) ==
    IF truthy(value)
    THEN IF ~(IsStr(value) /\ Join(value.v) \in allowed)
         THEN [ok |-> FALSE, error |-> "ValueError: " \o name \o " is invalid.",
               query_params |-> query_params]
         ELSE [ok |-> TRUE, error |-> "",
               query_params |-> Append(query_params, <<key, value>>)]
    ELSE [ok |-> TRUE, error |-> "", query_params |-> query_params]

competitions(self, season, response) ==
    LET c == check_pattern("season", "season", season, SEASON_PATTERN, <<>>)
    IN IF ~c.ok THEN Raised(c.error, <<>>)
       ELSE get_json(requests_get(
                _generate_url(self, "competitions", c.query_params),
                self.headers), response)

teams(self, competition_id, response) ==
    LET r == resolve(competition_id)
    IN IF ~r.found THEN Returned("KeyError", <<>>)
       ELSE get_json(requests_get(
                _generate_url(self, "competitions/" \o format(r.id) \o "/teams", <<>>),
                self.headers), response)

table(self, competition_id, matchday, response) ==
    LET r == resolve(competition_id)
        c == check_pattern("matchday", "matchday", matchday, MATCHDAY_PATTERN, <<>>)
    IN IF ~r.found THEN Returned("KeyError", <<>>)
       ELSE IF ~c.ok THEN Raised(c.error, <<>>)
       ELSE get_json(requests_get(
                _generate_url(self, "competitions/" \o format(r.id) \o "/leagueTable",
                              c.query_params),
                self.headers), response)

competition_fixtures(self, competition_id, matchday, time_frame, response) ==
    LET r == resolve(competition_id)
        c1 == check_pattern("matchday", "matchday", matchday, MATCHDAY_PATTERN, <<>>)
        c2 == check_pattern("time_frame", "timeFrame", time_frame,
                            TIME_FRAME_PATTERN, c1.query_params)
    IN IF ~r.found THEN Returned("KeyError", <<>>)
       ELSE IF ~c1.ok THEN Raised(c1.error, <<>>)
       ELSE IF ~c2.ok THEN Raised(c2.error, <<>>)
       ELSE get_json(requests_get(
                _generate_url(self, "competitions/" \o format(r.id) \o "/fixtures",
                              c2.query_params),
                self.headers), response)

fixtures(self, time_frame, league_code, response) ==
    LET c1 == check_pattern("time_frame", "timeFrame", time_frame,
                            TIME_FRAME_PATTERN, <<>>)
        c2 == check_member("league_code", "league", league_code,
                           DOMAIN LEAGUE_CODE, c1.query_params)
    IN IF ~c1.ok THEN Raised(c1.error, <<>>)
       ELSE IF ~c2.ok THEN Raised(c2.error, <<>>)
       ELSE get_json(requests_get(
                _generate_url(self, "fixtures", c2.query_params),
                self.headers), response)

fixture(self, fixture_id, response) ==
    get_json(requests_get(
        _generate_url(self, "fixtures/" \o format(fixture_id), <<>>),
        self.headers), response)

team_fixtures(self, team_id, season, time_frame, venue, response) ==
    LET c1 == check_pattern("season", "season", season, SEASON_PATTERN, <<>>)
        c2 == check_pattern("time_frame", "timeFrame", time_frame,
                            TIME_FRAME_PATTERN, c1.query_params)
        c3 == check_member("venue", "venue", venue, {"home", "away"},
                           c2.query_params)
    IN IF ~c1.ok THEN Raised(c1.error, <<>>)
       ELSE IF ~c2.ok THEN Raised(c2.error, <<>>)
       ELSE IF ~c3.ok THEN Raised(c3.error, <<>>)
       ELSE get_json(requests_get(
                _generate_url(self, "teams/" \o format(team_id) \o "/fixtures",
                              c3.query_params),
                self.headers), response)

team(self, team_id, response) ==
    get_json(requests_get(
        _generate_url(self, "teams/" \o format(team_id), <<>>),
        self.headers), response)

players(self, team_id, response) ==
    get_json(requests_get(
        _generate_url(self, "teams/" \o format(team_id) \o "/players", <<>>),
        self.headers), response)

-----------------------------------------------------------------------------
(* The arguments the operations are called with *)

RECURSIVE Strings(_, _)
Strings(chars, n) ==
    IF n = 0 THEN {<<>>}
    ELSE LET S == Strings(chars, n - 1)
         IN S \cup {Append(s, c) : s \in S, c \in chars}

PyStrs(S) == {PyStr(s) : s \in S}

ApiKeys == {"key-A", "key-B"}

Mnemonics ==
    { <<"B","S","A">>, <<"P","L">>, <<"E","L","C">>, <<"E","L","1">>,
      <<"E","L","2">>, <<"D","E","D">>, <<"F","L","1">>, <<"F","L","2">>,
      <<"B","L","1">>, <<"B","L","2">>, <<"P","D">>, <<"S","A">>,
      <<"P","P","L">>, <<"D","F","B">>, <<"S","B">>, <<"C","L">>,
      <<"A","A","L">> }

UnknownCodes == { <<"X","X">>, <<"4","4","5">>, <<"p","l">>, <<>> }

CompetitionFew ==
    PyStrs({ <<"P","L">>, <<"X","X">>, <<"4","4","5">> }) \cup {PyInt(445)}

CompetitionValues ==
    PyStrs(Mnemonics \cup UnknownCodes) \cup {PyInt(445), PyInt(0), PyInt(MaxId)}

Ids == {PyInt(i) : i \in 0..MaxId} \cup {PyInt(66)}

SeasonSamples ==
    {None, PyInt(2019)} \cup
    PyStrs({ <<"9","9">>, <<"2","0","1","9">>, <<"2","0","x","9">>,
             <<"2","0","1","9","9">> })

SeasonValues ==
    SeasonSamples \cup {PyInt(0), PyInt(99), PyInt(20199)}
    \cup PyStrs(Strings({"2", "x"}, MaxSeasonLen))

MatchdaySamples ==
    {None} \cup PyStrs({ <<"5">>, <<"5","x">>, <<"x">> })

MatchdayValues ==
    {None, PyInt(0), PyInt(5)} \cup PyStrs(Strings({"5", "x"}, MaxMatchdayLen))

TimeFrameFew ==
    {None} \cup PyStrs({ <<"n","5">>, <<"n","0">>, <<"n","1","2","3">>,
                         <<"x","5">> })

TimeFrameSamples ==
    PyStrs({ <<"p">>, <<"n","5">>, <<"n","7">>, <<"n","1","2">>, <<"n","4","5">>,
             <<"n","1","2","3">>, <<"x","5">>, <<"n","0">>, <<"p"," ","1">>,
             <<"p","&","x","=","1">> })

TimeFrameValues ==
    {None, PyInt(5)} \cup TimeFrameSamples
    \cup PyStrs(Strings({"n", "p", "0", "1"}, MaxTimeFrameLen))

LeagueValues ==
    {None, PyInt(445)} \cup PyStrs({ <<"P","L">>, <<"X","X">>, <<>> })

VenueValues ==
    {None} \cup PyStrs({ <<>>, <<"h","o","m","e">>, <<"a","w","a","y">>,
                         <<"h","o","m","e","x">> })

TableInputs ==
    (CompetitionValues \X {None, PyInt(5)}) \cup (CompetitionFew \X MatchdayValues)

CompetitionFixturesInputs ==
    (CompetitionValues \X {None} \X {None, PyStr(<<"n","5">>)})
    \cup (CompetitionFew \X MatchdaySamples \X TimeFrameFew)

FixturesInputs ==
    (TimeFrameValues \X {None, PyStr(<<"P","L">>)})
    \cup (TimeFrameFew \X LeagueValues)

TeamFixturesInputs ==
    {PyInt(MaxId)} \X SeasonSamples \X TimeFrameFew \X VenueValues

UrlActions ==
    {"competitions", "fixtures", "teams", "competitions/445/teams",
     "competitions/445/fixtures", "fixtures/" \o format(PyInt(MaxId))}

UrlQueryParams ==
    { <<>>,
      << <<"season", PyStr(<<"2","0","1","9">>)>> >>,
      << <<"timeFrame", PyStr(<<"p"," ","1">>)>> >>,
      << <<"matchday", PyStr(<<"5">>)>>, <<"timeFrame", PyStr(<<"n","5">>)>> >> }

NoArgs ==
    [competition_id |-> None, matchday |-> None, time_frame |-> None,
     season |-> None, venue |-> None, league_code |-> None, id |-> None,
     action |-> "", query_params |-> <<>>]

-----------------------------------------------------------------------------
(* The state machine: a client is constructed, then its methods are called *)
(* in any order with any arguments.                                        *)

LeagueCodeTable ==
    ("BSA" :> 444) @@ ("PL" :> 445) @@ ("ELC" :> 446) @@ ("EL1" :> 447) @@
    ("EL2" :> 448) @@ ("DED" :> 449) @@ ("FL1" :> 450) @@ ("FL2" :> 451) @@
    ("BL1" :> 452) @@ ("BL2" :> 453) @@ ("PD" :> 455) @@ ("SA" :> 456) @@
    ("PPL" :> 457) @@ ("DFB" :> 458) @@ ("SB" :> 459) @@ ("CL" :> 464) @@
    ("AAL" :> 466)

\* Football(api_key): __init__ has run and no method has been called yet
Init ==
    /\ api_key \in ApiKeys
    /\ headers = [name \in {"X-Auth-Token"} |-> api_key]
    /\ API_URL = "http://api.football-data.org/v1/"
    /\ LEAGUE_CODE = LeagueCodeTable
    /\ last = [op |-> "__init__", args |-> NoArgs, result |-> Returned("None", <<>>)]

\* what one invocation leaves behind
Invocation(op, args, result) == [op |-> op, args |-> args, result |-> result]

call_competitions ==
    \E season \in SeasonValues, response \in Responses :
        /\ last' = Invocation("competitions", [NoArgs EXCEPT !.season = season],
                    competitions(Self, season, response))
        /\ UNCHANGED <<api_key, headers, API_URL, LEAGUE_CODE>>

\* a variant of teams that takes the code out of the table,
\* LEAGUE_CODE.pop(competition_id)
call_teams_pop ==
    \E competition_id \in CompetitionValues, response \in Responses :
        /\ last' = Invocation("teams", [NoArgs EXCEPT !.competition_id = competition_id],
                    teams(Self, competition_id, response))
        /\ LEAGUE_CODE' =
              [code \in {k \in DOMAIN LEAGUE_CODE :
                            ~(IsStr(competition_id) /\ Join(competition_id.v) = k)}
                  |-> LEAGUE_CODE[code]]
        /\ UNCHANGED <<api_key, headers, API_URL>>

call_teams ==
    \E competition_id \in CompetitionValues, response \in Responses :
        /\ last' = Invocation("teams", [NoArgs EXCEPT !.competition_id = competition_id],
                    teams(Self, competition_id, response))
        /\ UNCHANGED <<api_key, headers, API_URL, LEAGUE_CODE>>

call_table ==
    \E in \in TableInputs, response \in Responses :
        /\ last' = Invocation("table",
                    [NoArgs EXCEPT !.competition_id = in[1], !.matchday = in[2]],
                    table(Self, in[1], in[2], response))
        /\ UNCHANGED <<api_key, headers, API_URL, LEAGUE_CODE>>

call_competition_fixtures ==
    \E in \in CompetitionFixturesInputs, response \in Responses :
        /\ last' = Invocation("competition_fixtures",
                    [NoArgs EXCEPT !.competition_id = in[1], !.matchday = in[2],
                                   !.time_frame = in[3]],
                    competition_fixtures(Self, in[1], in[2], in[3], response))
        /\ UNCHANGED <<api_key, headers, API_URL, LEAGUE_CODE>>

call_fixtures ==
    \E in \in FixturesInputs, response \in Responses :
        /\ last' = Invocation("fixtures",
                    [NoArgs EXCEPT !.time_frame = in[1], !.league_code = in[2]],
                    fixtures(Self, in[1], in[2], response))
        /\ UNCHANGED <<api_key, headers, API_URL, LEAGUE_CODE>>

call_fixture ==
    \E fixture_id \in Ids, response \in Responses :
        /\ last' = Invocation("fixture", [NoArgs EXCEPT !.id = fixture_id],
                    fixture(Self, fixture_id, response))
        /\ UNCHANGED <<api_key, headers, API_URL, LEAGUE_CODE>>

call_team_fixtures ==
    \E in \in TeamFixturesInputs, response \in Responses :
        /\ last' = Invocation("team_fixtures",
                    [NoArgs EXCEPT !.id = in[1], !.season = in[2],
                                   !.time_frame = in[3], !.venue = in[4]],
                    team_fixtures(Self, in[1], in[2], in[3], in[4], response))
        /\ UNCHANGED <<api_key, headers, API_URL, LEAGUE_CODE>>

call_team ==
    \E team_id \in Ids, response \in Responses :
        /\ last' = Invocation("team", [NoArgs EXCEPT !.id = team_id],
                    team(Self, team_id, response))
        /\ UNCHANGED <<api_key, headers, API_URL, LEAGUE_CODE>>

call_players ==
    \E team_id \in Ids, response \in Responses :
        /\ last' = Invocation("players", [NoArgs EXCEPT !.id = team_id],
                    players(Self, team_id, response))
        /\ UNCHANGED <<api_key, headers, API_URL, LEAGUE_CODE>>

\* the URL builder called on its own
call_generate_url ==
    \E action \in UrlActions, query_params \in UrlQueryParams :
        /\ last' = Invocation("_generate_url",
                    [NoArgs EXCEPT !.action = action, !.query_params = query_params],
                    Returned(_generate_url(Self, action, query_params), <<>>))
        /\ UNCHANGED <<api_key, headers, API_URL, LEAGUE_CODE>>

Next ==
    \/ call_competitions
    \/ call_teams
    \/ call_table
    \/ call_competition_fixtures
    \/ call_fixtures
    \/ call_fixture
    \/ call_team_fixtures
    \/ call_team
    \/ call_players
    \/ call_generate_url

Spec == Init /\ [][Next]_vars

-----------------------------------------------------------------------------
(* Vocabulary of the properties *)

PublicOps ==
    {"competitions", "teams", "table", "competition_fixtures", "fixtures",
     "fixture", "team_fixtures", "team", "players"}

CompetitionOps == {"teams", "table", "competition_fixtures"}

BaseUrl == "http://api.football-data.org/v1/"

\* the league mnemonics and their numeric ids, as documented
DocumentedIds ==
    [code \in {"BSA", "PL", "ELC", "EL1", "EL2", "DED", "FL1", "FL2", "BL1",
               "BL2", "PD", "SA", "PPL", "DFB", "SB", "CL", "AAL"} |->
        CASE code = "BSA" -> 444 [] code = "PL" -> 445 [] code = "ELC" -> 446
          [] code = "EL1" -> 447 [] code = "EL2" -> 448 [] code = "DED" -> 449
          [] code = "FL1" -> 450 [] code = "FL2" -> 451 [] code = "BL1" -> 452
          [] code = "BL2" -> 453 [] code = "PD" -> 455 [] code = "SA" -> 456
          [] code = "PPL" -> 457 [] code = "DFB" -> 458 [] code = "SB" -> 459
          [] code = "CL" -> 464 [] code = "AAL" -> 466]

SeasonError == "ValueError: season is invalid."
MatchdayError == "ValueError: matchday is invalid."
TimeFrameError == "ValueError: time_frame is invalid."
LeagueError == "ValueError: league_code is invalid."
VenueError == "ValueError: venue is invalid."
ValidationErrors ==
    {SeasonError, MatchdayError, TimeFrameError, LeagueError, VenueError}

EndedInValidationError ==
    last.result.kind = "raise" /\ last.result.value \in ValidationErrors
EndedInLookupError ==
    last.result.kind = "return" /\ last.result.value = "KeyError"
ValidationPassed == ~EndedInValidationError /\ ~EndedInLookupError
NoGet == last.result.requests = <<>>

\* a parameter the caller gave a value for: anything but None; and one the
\* method takes as given: a value Python counts as true (not None, 0 or "")
Given(x) == ~IsNone(x)
Supplied(x) == truthy(x)

AllDigits(s) == \A i \in 1..Len(s) : s[i] \in Digits
IsFourDigits(s) == Len(s) = 4 /\ AllDigits(s)
IsDigits(s) == Len(s) >= 1 /\ AllDigits(s)
IsTimeFrame(s) ==
    \/ s = <<"p">>
    \/ /\ Len(s) \in 2..3
       /\ s[1] = "n"
       /\ \A i \in 2..Len(s) : s[i] \in Digits
IsVenue(x) == IsStr(x) /\ Join(x.v) \in {"home", "away"}
IsLeague(x) == IsStr(x) /\ Join(x.v) \in DOMAIN DocumentedIds

\* the query string of the parameters that went into the request
Param(name, x) == IF truthy(x) THEN << <<name, PyStr(str(x))>> >> ELSE <<>>
QueryOf(args) ==
    LET qp == Param("season", args.season) \o Param("matchday", args.matchday)
              \o Param("timeFrame", args.time_frame)
              \o Param("league", args.league_code) \o Param("venue", args.venue)
    IN IF qp = <<>> THEN "" ELSE "?" \o urlencode(qp)

CompetitionSegment(c) ==
    IF IsStr(c) THEN ToString(DocumentedIds[Join(c.v)]) ELSE ToString(c.v)

ResourcePath(op, args) ==
    CASE op = "competitions" -> "competitions/"
      [] op = "teams" ->
            "competitions/" \o CompetitionSegment(args.competition_id) \o "/teams"
      [] op = "table" ->
            "competitions/" \o CompetitionSegment(args.competition_id)
                \o "/leagueTable"
      [] op = "competition_fixtures" ->
            "competitions/" \o CompetitionSegment(args.competition_id)
                \o "/fixtures"
      [] op = "fixtures" -> "fixtures/"
      [] op = "fixture" -> "fixtures/" \o ToString(args.id.v)
      [] op = "team_fixtures" -> "teams/" \o ToString(args.id.v) \o "/fixtures"
      [] op = "team" -> "teams/" \o ToString(args.id.v)
      [] op = "players" -> "teams/" \o ToString(args.id.v) \o "/players"

IsTablePL5 ==
    /\ last.op = "table"
    /\ IsStr(last.args.competition_id) /\ last.args.competition_id.v = <<"P", "L">>
    /\ IsInt(last.args.matchday) /\ last.args.matchday.v = 5

-----------------------------------------------------------------------------
\* C1: every invocation of a public operation whose parameters pass
\* validation issues exactly one HTTP GET; the GET carries X-Auth-Token equal
\* to the API key and targets the base URL joined with the operation's
\* resource path (and the query of its parameters); table("PL", matchday=5)
\* issues one GET to .../competitions/445/leagueTable?matchday=5.
C1_ExactlyOneGet ==
    /\ (last.op \in PublicOps /\ ValidationPassed) =>
          /\ Len(last.result.requests) = 1
          /\ last.result.requests[1].method = "GET"
          /\ last.result.requests[1].headers = [h \in {"X-Auth-Token"} |-> api_key]
          /\ last.result.requests[1].url =
                BaseUrl \o ResourcePath(last.op, last.args) \o QueryOf(last.args)
    /\ IsTablePL5 =>
          /\ Len(last.result.requests) = 1
          /\ last.result.requests[1].url =
                "http://api.football-data.org/v1/competitions/445/leagueTable?matchday=5"

C1_Witness ==
    /\ IsTablePL5
    /\ last.result = Returned("json", last.result.requests)
    /\ Len(last.result.requests) = 1

\* C2: in the operations with optional parameters, whenever at least one
\* supplied parameter is invalid the invocation ends in a validation error
\* and no GET is issued, whatever the other parameters are.
C2_InvalidParameterNoGet ==
    LET a == last.args
        invalid ==
            \/ Supplied(a.season) /\ ~IsFourDigits(str(a.season))
            \/ Supplied(a.matchday) /\ ~IsDigits(str(a.matchday))
            \/ Supplied(a.time_frame) /\ ~IsTimeFrame(str(a.time_frame))
            \/ Supplied(a.league_code) /\ ~IsLeague(a.league_code)
            \/ Supplied(a.venue) /\ ~IsVenue(a.venue)
    IN (last.op \in {"competitions", "table", "competition_fixtures", "fixtures",
                     "team_fixtures"} /\ invalid)
          => (EndedInValidationError /\ NoGet)

\* C3: in teams, table and competition_fixtures a competition given as a
\* string that is not a key of the league code table ends in a lookup error
\* and no GET is issued.
C3_UnknownCodeLookupError ==
    (/\ last.op \in CompetitionOps
     /\ IsStr(last.args.competition_id)
     /\ Join(last.args.competition_id.v) \notin DOMAIN DocumentedIds)
        => (EndedInLookupError /\ NoGet)

C3_Witness ==
    /\ last.op = "table"
    /\ IsStr(last.args.competition_id)
    /\ last.args.competition_id.v = <<"4", "4", "5">>
    /\ Supplied(last.args.matchday)
    /\ EndedInLookupError
    /\ NoGet

\* C4: teams, table and competition_fixtures resolve every mnemonic of the
\* league code table to its documented id, which is the competition segment
\* of the requested URL; a numeric identifier is used in the path unchanged.
C4_MnemonicResolvesToDocumentedId ==
    LET c == last.args.competition_id
        known == IF IsStr(c) THEN Join(c.v) \in DOMAIN DocumentedIds ELSE IsInt(c)
    IN (last.op \in CompetitionOps /\ known) =>
          /\ ~EndedInLookupError
          /\ ~NoGet =>
                last.result.requests[1].url =
                    BaseUrl \o "competitions/"
                    \o (IF IsStr(c) THEN ToString(DocumentedIds[Join(c.v)])
                        ELSE ToString(c.v))
                    \o (CASE last.op = "teams" -> "/teams"
                          [] last.op = "table" -> "/leagueTable"
                          [] last.op = "competition_fixtures" -> "/fixtures")
                    \o QueryOf(last.args)

C4_Witness ==
    /\ last.op = "competition_fixtures"
    /\ IsStr(last.args.competition_id) /\ last.args.competition_id.v = <<"P", "D">>
    /\ Len(last.result.requests) = 1
    /\ last.result.requests[1].url =
          "http://api.football-data.org/v1/competitions/455/fixtures?timeFrame=n5"

\* C5: in competitions and team_fixtures, a supplied season that is not
\* exactly four decimal digits fails validation before any request is sent;
\* a season of exactly four digits passes.
C5_SeasonExactlyFourDigits ==
    (last.op \in {"competitions", "team_fixtures"} /\ Supplied(last.args.season))
        => IF IsFourDigits(str(last.args.season))
           THEN ~(last.result.kind = "raise" /\ last.result.value = SeasonError)
           ELSE last.result = Raised(SeasonError, <<>>)

\* C6: in competition_fixtures, fixtures and team_fixtures, a supplied
\* timeFrame passes validation exactly when it is p, or n followed by one or
\* two decimal digits.
C6_TimeFrameExactPattern ==
    (/\ last.op \in {"competition_fixtures", "fixtures", "team_fixtures"}
     /\ Supplied(last.args.time_frame))
        => IF IsTimeFrame(str(last.args.time_frame))
           THEN ~(last.result.kind = "raise" /\ last.result.value = TimeFrameError)
           ELSE \/ last.result = Raised(TimeFrameError, <<>>)
                \/ EndedInLookupError /\ NoGet
                \/ /\ EndedInValidationError /\ NoGet
                   /\ last.result.value \in {SeasonError, MatchdayError}

\* C7: in table and competition_fixtures, a supplied matchday is accepted
\* only when it is one or more decimal digits and nothing else; a matchday
\* with a non-digit character fails validation and never reaches the query.
C7_MatchdayOnlyDigits ==
    (/\ last.op \in {"table", "competition_fixtures"}
     /\ Supplied(last.args.matchday)
     /\ ~IsDigits(str(last.args.matchday)))
        => /\ NoGet
           /\ \/ last.result = Raised(MatchdayError, <<>>)
              \/ EndedInLookupError

\* C8: in team_fixtures, every supplied venue other than exactly "home" or
\* "away" (the empty string included) fails validation and no request is
\* issued; "home" and "away" pass and appear as the venue query parameter.
C8_VenueHomeOrAway ==
    (last.op = "team_fixtures" /\ Given(last.args.venue))
        => IF IsVenue(last.args.venue)
           THEN /\ ~(last.result.kind = "raise" /\ last.result.value = VenueError)
                /\ ~NoGet =>
                      last.result.requests[1].url =
                          BaseUrl \o ResourcePath(last.op, last.args)
                          \o QueryOf([last.args EXCEPT !.venue = None])
                          \o (IF QueryOf([last.args EXCEPT !.venue = None]) = ""
                              THEN "?" ELSE "&")
                          \o "venue=" \o Join(last.args.venue.v)
           ELSE EndedInValidationError /\ NoGet

\* C9: _generate_url changes no state and issues no request; `competitions`
\* and `fixtures` gain a trailing slash, placed before the query string, and
\* no other action gains one; a query string is appended only when the
\* parameter mapping is non-empty.
C9_UrlShape ==
    last.op = "_generate_url" =>
        LET action == last.args.action
            qp == last.args.query_params
            slash == IF action \in {"competitions", "fixtures"} THEN "/" ELSE ""
            query == IF qp = <<>> THEN "" ELSE "?" \o urlencode(qp)
        IN /\ last.result = Returned(BaseUrl \o action \o slash \o query, <<>>)

C9_GenerateUrlPure ==
    /\ []C9_UrlShape
    /\ [][last'.op = "_generate_url" =>
            UNCHANGED <<api_key, headers, API_URL, LEAGUE_CODE>>]_vars

C9_Witness ==
    /\ last.op = "_generate_url"
    /\ last.args.action = "fixtures"
    /\ Len(last.args.query_params) = 2
    /\ last.result.value =
          "http://api.football-data.org/v1/fixtures/?matchday=5&timeFrame=n5"

\* C10: whatever operations ran, and however each ended, the API key, the
\* auth header, the base URL and the league code table are as constructed.
C10_ConfigAsConstructed ==
    /\ api_key \in ApiKeys
    /\ headers = [h \in {"X-Auth-Token"} |-> api_key]
    /\ API_URL = BaseUrl
    /\ LEAGUE_CODE = DocumentedIds

C10_ConfigNeverChanges ==
    /\ []C10_ConfigAsConstructed
    /\ [][UNCHANGED <<api_key, headers, API_URL, LEAGUE_CODE>>]_vars

C10_Witness ==
    /\ last.op = "team_fixtures"
    /\ EndedInValidationError
    /\ C10_ConfigAsConstructed

====
